---- MODULE Spec2Model ----
(***************************************************************************)
(* Model of the template-sync engine of create-nexu: the `update` command, *)
(* its tree comparison (collectFileChanges / collectDeletedFiles), the     *)
(* deletion exclusion predicate, the manifest diff and merge, and the      *)
(* empty-directory cleanup.  Two variants of update.ts exist in the        *)
(* repository; `variant` selects which one runs:                           *)
(*   "deletion" : the variant with deletion detection, cleanup and install *)
(*   "additive" : the variant without deletion detection, whose script     *)
(*                merge keeps the project's scripts                        *)
(*                                                                         *)
(* Paths are sequences of entry names relative to the project (or          *)
(* template) root.  A string such as a relativePath is a sequence of       *)
(* atoms: entry names and separator characters.  File contents are         *)
(* abstract byte strings 1..MaxContent; every template file has content 1. *)
(* Manifest keys are 1..MaxKey, standing for non-numeric names in          *)
(* ascending lexicographic order; manifest values are strings and "" is    *)
(* the empty string.                                                       *)
(***************************************************************************)
EXTENDS Integers, Sequences, FiniteSets, TLC

\* ------------------------------------------------------------------ bounds
MaxContent == 2
MaxKey == 2

\* ------------------------------------------------------- the file universe
\* Every path the model can hold, in directory-listing order (a parent
\* before its children, siblings in name order).
Universe ==
  << <<".husky">>, <<".husky", "_">>, <<".husky", "_", "husky.sh">>,
     <<"apps">>,
     <<"config">>, <<"config", "x.json">>,
     <<"packages">>, <<"packages", "cache">>, <<"packages", "cache", "index.ts">>,
     <<"packages", "cache", "pnpm-lock.yaml">>,
     <<"packages", "logger">>, <<"packages", "logger", "index.ts">>,
     <<"scripts">>, <<"scripts", "old">>, <<"scripts", "old", "lib">>,
     <<"scripts", "old", "lib", "util.sh">>, <<"scripts", "old.sh">>,
     <<"scripts", "run.sh">>,
     <<"services">>, <<"services", "dist">>, <<"services", "dist", "a.yml">>,
     <<"services", "dist", "b.yml">>,
     <<"turbo.json">> >>

Nodes == {Universe[i] : i \in DOMAIN Universe}

Root == <<>>

NoEntry == [k |-> "none", c |-> 0]
DirEntry == [k |-> "dir", c |-> 0]
FileEntry(c) == [k |-> "file", c |-> c]

Parent(p) == SubSeq(p, 1, Len(p) - 1)
Name(p) == p[Len(p)]
IsUnder(p, d) == Len(p) > Len(d) /\ SubSeq(p, 1, Len(d)) = d

\* ---------------------------------------------------------- fs primitives
Entry(t, p) == IF p = Root THEN DirEntry ELSE IF p \in Nodes THEN t[p] ELSE NoEntry

existsSync(t, p) == Entry(t, p).k # "none"

isDirectory(t, p) == Entry(t, p).k = "dir"

isFile(t, p) == Entry(t, p).k = "file"

\* readdirSync(dir): the entries of dir, in listing order
readdirSync(t, d) ==
  SelectSeq(Universe, LAMBDA q : Parent(q) = d /\ t[q].k # "none")

\* readdirSync throws ENOTDIR on a path that is a file
readdirThrows(t, d) == isFile(t, d)

RECURSIVE ConcatAll(_)
ConcatAll(ss) == IF ss = <<>> THEN <<>> ELSE Head(ss) \o ConcatAll(Tail(ss))

\* path.join(basePath, name) with the platform separator sep
pathJoin(base, name, sep) == IF base = <<>> THEN <<name>> ELSE base \o <<sep, name>>

startsWith(s, prefix) ==
  Len(prefix) <= Len(s) /\ SubSeq(s, 1, Len(prefix)) = prefix

\* ------------------------------------------------------ exclusion rule set
EXCLUDE_FROM_DELETION ==
  << <<"node_modules">>, <<".git">>, <<".turbo">>, <<"dist">>, <<"build">>,
     <<".next">>, <<"coverage">>, <<".husky", "/", "_">>, <<".DS_Store">> >>

ExclusionPatterns == {EXCLUDE_FROM_DELETION[i] : i \in DOMAIN EXCLUDE_FROM_DELETION}

shouldExcludeFromDeletion(name, relativePath, sep) ==
  \/ <<name>> \in ExclusionPatterns
  \/ \E pattern \in ExclusionPatterns :
        \/ startsWith(relativePath, pattern \o <<"/">>)
        \/ startsWith(relativePath, pattern \o <<sep>>)
        \/ relativePath = pattern

\* ---------------------------------------------------------- tree compare
\* compareFiles that stops at the existence checks
compareFiles_ExistenceOnly(tmpl, proj, src, dest) ==
  existsSync(proj, dest) /\ existsSync(tmpl, src)

\* compareFiles that never finds two files equal
compareFiles_NeverEqual(tmpl, proj, src, dest) == FALSE

compareFiles(tmpl, proj, src, dest) ==
  IF ~existsSync(proj, dest) THEN FALSE
  ELSE IF ~existsSync(tmpl, src) THEN FALSE
  ELSE IF isDirectory(tmpl, src) \/ isDirectory(proj, dest) THEN FALSE
  ELSE Entry(tmpl, src).c = Entry(proj, dest).c

Change(type, relativePath, src, dest, category) ==
  [type |-> type, relativePath |-> relativePath, srcPath |-> src,
   destPath |-> dest, category |-> category]

Walk(changes, threw) == [changes |-> changes, threw |-> threw]

\* the records of a sequence of walks, up to the first one that throws
RECURSIVE WalkAll(_)
WalkAll(ws) ==
  IF ws = <<>> THEN Walk(<<>>, FALSE)
  ELSE IF Head(ws).threw THEN Walk(<<>>, TRUE)
  ELSE LET rest == WalkAll(Tail(ws))
       IN Walk(Head(ws).changes \o rest.changes, rest.threw)

RECURSIVE collectDeletedFiles(_, _, _, _, _)
collectDeletedFiles(proj, destDir, category, basePath, sep) ==
  IF ~existsSync(proj, destDir) THEN <<>>
  ELSE
    LET entries == readdirSync(proj, destDir)
        one(destPath) ==
          LET relativePath == pathJoin(basePath, Name(destPath), sep)
          IN IF shouldExcludeFromDeletion(Name(destPath), relativePath, sep) THEN <<>>
             ELSE IF isDirectory(proj, destPath)
               THEN collectDeletedFiles(proj, destPath, category, relativePath, sep)
               ELSE << Change("delete", relativePath, <<>>, destPath, category) >>
    IN ConcatAll([i \in DOMAIN entries |-> one(entries[i])])

\* collectFileChanges whose deletion pass does not skip the entries that
\* the template has
RECURSIVE collectFileChanges_NoTemplateSkip(_, _, _, _, _, _, _)
collectFileChanges_NoTemplateSkip(tmpl, proj, dir, category, basePath, checkDeleted, sep) ==
  LET addPass ==
        IF ~existsSync(tmpl, dir) THEN Walk(<<>>, FALSE)
        ELSE IF readdirThrows(tmpl, dir) THEN Walk(<<>>, TRUE)
        ELSE
          LET entries == readdirSync(tmpl, dir)
              one(p) ==
                LET relativePath == pathJoin(basePath, Name(p), sep)
                IN IF isDirectory(tmpl, p)
                     THEN collectFileChanges_NoTemplateSkip(tmpl, proj, p, category, relativePath,
                                             checkDeleted, sep)
                   ELSE IF ~existsSync(proj, p)
                     THEN Walk(<< Change("add", relativePath, p, p, category) >>, FALSE)
                   ELSE IF ~compareFiles(tmpl, proj, p, p)
                     THEN Walk(<< Change("modify", relativePath, p, p, category) >>, FALSE)
                   ELSE Walk(<<>>, FALSE)
          IN WalkAll([i \in DOMAIN entries |-> one(entries[i])])
      deletePass ==
        IF ~(checkDeleted /\ existsSync(proj, dir)) THEN Walk(<<>>, FALSE)
        ELSE IF readdirThrows(proj, dir) THEN Walk(<<>>, TRUE)
        ELSE
          LET destEntries == readdirSync(proj, dir)
              one(p) ==
                LET relativePath == pathJoin(basePath, Name(p), sep)
                IN IF shouldExcludeFromDeletion(Name(p), relativePath, sep) THEN <<>>
                   ELSE IF isDirectory(proj, p)
                     THEN collectDeletedFiles(proj, p, category, relativePath, sep)
                   ELSE << Change("delete", relativePath, p, p, category) >>
          IN Walk(ConcatAll([i \in DOMAIN destEntries |-> one(destEntries[i])]), FALSE)
  IN WalkAll(<<addPass, deletePass>>)

\* src and dest directories sit at the same relative place dir of the two
\* trees; an entry of the template that the universe lacks cannot exist.
RECURSIVE collectFileChanges(_, _, _, _, _, _, _)
collectFileChanges(tmpl, proj, dir, category, basePath, checkDeleted, sep) ==
  LET addPass ==
        IF ~existsSync(tmpl, dir) THEN Walk(<<>>, FALSE)
        ELSE IF readdirThrows(tmpl, dir) THEN Walk(<<>>, TRUE)
        ELSE
          LET entries == readdirSync(tmpl, dir)
              one(p) ==
                LET relativePath == pathJoin(basePath, Name(p), sep)
                IN IF isDirectory(tmpl, p)
                     THEN collectFileChanges(tmpl, proj, p, category, relativePath,
                                             checkDeleted, sep)
                   ELSE IF ~existsSync(proj, p)
                     THEN Walk(<< Change("add", relativePath, p, p, category) >>, FALSE)
                   ELSE IF ~compareFiles(tmpl, proj, p, p)
                     THEN Walk(<< Change("modify", relativePath, p, p, category) >>, FALSE)
                   ELSE Walk(<<>>, FALSE)
          IN WalkAll([i \in DOMAIN entries |-> one(entries[i])])
      deletePass ==
        IF ~(checkDeleted /\ existsSync(proj, dir)) THEN Walk(<<>>, FALSE)
        ELSE IF readdirThrows(proj, dir) THEN Walk(<<>>, TRUE)
        ELSE
          LET destEntries == readdirSync(proj, dir)
              one(p) ==
                LET relativePath == pathJoin(basePath, Name(p), sep)
                IN IF shouldExcludeFromDeletion(Name(p), relativePath, sep) THEN <<>>
                   ELSE IF existsSync(tmpl, p) THEN <<>>
                   ELSE IF isDirectory(proj, p)
                     THEN collectDeletedFiles(proj, p, category, relativePath, sep)
                   ELSE << Change("delete", relativePath, p, p, category) >>
          IN Walk(ConcatAll([i \in DOMAIN destEntries |-> one(destEntries[i])]), FALSE)
  IN WalkAll(<<addPass, deletePass>>)

\* ------------------------------------------------------------- manifests
\* A JSON object with string values is the sequence of its <<key, value>>
\* pairs in property order; a field that the document lacks has has = FALSE.
Keys == 1..MaxKey
Values == {"", "1.0", "2.0"}

Undefined == [has |-> FALSE, m |-> <<>>]
Obj(m) == [has |-> TRUE, m |-> m]

KeysOf(m) == {m[i][1] : i \in DOMAIN m}
Lookup(m, k) == m[CHOOSE i \in DOMAIN m : m[i][1] = k][2]

\* obj?.[k] is truthy: the field is there, has the key, and the value is
\* not the empty string
Truthy(g, k) == g.has /\ k \in KeysOf(g.m) /\ Lookup(g.m, k) # ""

\* the spread that keeps a's value for a key both have
Spread_KeepFirst(a, b) == a \o SelectSeq(b, LAMBDA e : e[1] \notin KeysOf(a))

\* { ...a, ...b }: a's keys in a's order with b's values where b has the
\* key, then the keys only b has, in b's order
Spread(a, b) ==
  [i \in DOMAIN a |-> IF a[i][1] \in KeysOf(b) THEN <<a[i][1], Lookup(b, a[i][1])>> ELSE a[i]]
    \o SelectSeq(b, LAMBDA e : e[1] \notin KeysOf(a))

RECURSIVE SortedSeq(_)
SortedSeq(S) ==
  IF S = {} THEN <<>>
  ELSE LET lo == CHOOSE x \in S : \A y \in S : x <= y
       IN <<lo>> \o SortedSeq(S \ {lo})

\* sortObject that rebuilds the object in its own key order
sortObject_Unsorted(obj) == obj

sortObject(obj) ==
  LET ks == SortedSeq(KeysOf(obj))
  IN [i \in DOMAIN ks |-> <<ks[i], Lookup(obj, ks[i])>>]

Groups == {"dependencies", "devDependencies", "scripts"}

EmptyDiff == [g \in Groups |-> <<>>]
NoChanges == [has |-> FALSE, added |-> EmptyDiff, updated |-> EmptyDiff]

\* the entries of template group t that the loop files under `added`
addedOf(t, p) ==
  IF ~t.has THEN <<>> ELSE SelectSeq(t.m, LAMBDA e : ~Truthy(p, e[1]))

\* updatedOf with the value test as an `if` of its own, not the `else` of
\* the presence test
updatedOf_NoElse(t, p) ==
  IF ~t.has THEN <<>>
  ELSE LET from(k) == IF k \in KeysOf(p.m) THEN Lookup(p.m, k) ELSE ""
           changed == SelectSeq(t.m, LAMBDA e : from(e[1]) # e[2])
       IN [i \in DOMAIN changed |-> <<changed[i][1], from(changed[i][1]), changed[i][2]>>]

\* the entries it files under `updated`, as <<key, from, to>>
updatedOf(t, p) ==
  IF ~t.has THEN <<>>
  ELSE LET changed == SelectSeq(t.m, LAMBDA e : Truthy(p, e[1]) /\ Lookup(p.m, e[1]) # e[2])
       IN [i \in DOMAIN changed |-> <<changed[i][1], Lookup(p.m, changed[i][1]), changed[i][2]>>]

\* readJsonSync throws on a package.json that does not parse
readJsonThrows(templatePkg, projectPkg) ==
  /\ templatePkg.exists /\ projectPkg.exists
  /\ ~templatePkg.valid \/ ~projectPkg.valid

collectDependencyChanges(templatePkg, projectPkg, v) ==
  IF ~templatePkg.exists \/ ~projectPkg.exists THEN NoChanges
  ELSE [has |-> TRUE,
        added |-> [g \in Groups |-> addedOf(templatePkg[g], projectPkg[g])],
        updated |-> [g \in Groups |->
                       IF g = "scripts" /\ v = "additive" THEN <<>>
                       ELSE updatedOf(templatePkg[g], projectPkg[g])]]

\* hasChanges without the test of updated.scripts
hasChanges_NoUpdatedScripts(changes, v) ==
  \/ changes.added["dependencies"] # <<>>
  \/ changes.added["devDependencies"] # <<>>
  \/ changes.added["scripts"] # <<>>
  \/ changes.updated["dependencies"] # <<>>
  \/ changes.updated["devDependencies"] # <<>>

hasChanges(changes, v) ==
  \/ changes.added["dependencies"] # <<>>
  \/ changes.added["devDependencies"] # <<>>
  \/ changes.added["scripts"] # <<>>
  \/ changes.updated["dependencies"] # <<>>
  \/ changes.updated["devDependencies"] # <<>>
  \/ (v = "deletion" /\ changes.updated["scripts"] # <<>>)

\* the manifest merge that takes the template's scripts in both variants
\* the merge that writes the template's manifest with the merged groups
mergeManifest_FromTemplate(templatePkg, projectPkg, v) ==
  LET grp(g) == IF templatePkg[g].has
                  THEN Obj(Spread(projectPkg[g].m, templatePkg[g].m))
                  ELSE projectPkg[g]
  IN [templatePkg EXCEPT
        !.dependencies = grp("dependencies"),
        !.devDependencies = grp("devDependencies"),
        !.scripts = grp("scripts")]

mergeManifest_TemplateScripts(templatePkg, projectPkg, v) ==
  LET dev == IF templatePkg.devDependencies.has
               THEN Obj(Spread(projectPkg.devDependencies.m, templatePkg.devDependencies.m))
               ELSE projectPkg.devDependencies
      dep == IF templatePkg.dependencies.has
               THEN Obj(Spread(projectPkg.dependencies.m, templatePkg.dependencies.m))
               ELSE projectPkg.dependencies
      scr == IF templatePkg.scripts.has
               THEN Obj(Spread(projectPkg.scripts.m, templatePkg.scripts.m))
               ELSE projectPkg.scripts
  IN [projectPkg EXCEPT
        !.dependencies = IF dep.has THEN Obj(sortObject(dep.m)) ELSE dep,
        !.devDependencies = IF dev.has THEN Obj(sortObject(dev.m)) ELSE dev,
        !.scripts = scr]

\* the manifest merge of the apply phase: the document that is written
mergeManifest(templatePkg, projectPkg, v) ==
  LET dev == IF templatePkg.devDependencies.has
               THEN Obj(Spread(projectPkg.devDependencies.m, templatePkg.devDependencies.m))
               ELSE projectPkg.devDependencies
      dep == IF templatePkg.dependencies.has
               THEN Obj(Spread(projectPkg.dependencies.m, templatePkg.dependencies.m))
               ELSE projectPkg.dependencies
      scr == IF templatePkg.scripts.has
               THEN IF v = "deletion"
                      THEN Obj(Spread(projectPkg.scripts.m, templatePkg.scripts.m))
                      ELSE Obj(Spread(templatePkg.scripts.m, projectPkg.scripts.m))
               ELSE projectPkg.scripts
  IN [projectPkg EXCEPT
        !.dependencies = IF dep.has THEN Obj(sortObject(dep.m)) ELSE dep,
        !.devDependencies = IF dev.has THEN Obj(sortObject(dev.m)) ELSE dev,
        !.scripts = scr]

\* isNexuProject that asks only for a package.json
isNexuProject_ExistsOnly(proj, projectPkg) == projectPkg.exists

\* a package.json that does not parse makes readJsonSync throw, which the
\* catch turns into false
isNexuProject(proj, projectPkg) ==
  IF ~projectPkg.exists THEN FALSE
  ELSE IF ~projectPkg.valid THEN FALSE
  ELSE projectPkg.name = "nexu" \/ existsSync(proj, <<"turbo.json">>)

\* ------------------------------------------------------------- constants
TEMPLATE_DIRS_config ==
  << ".eslintrc.js", ".eslintignore", ".prettierrc", ".prettierignore",
     "tsconfig.json", "turbo.json", "vitest.config.ts", "commitlint.config.js" >>

SHARED_PACKAGES ==
  << "cache", "config", "constants", "logger", "result", "types", "ui", "utils" >>

Categories == {"packages", "config", "workflows", "services", "scripts", "dependencies"}

\* ------------------------------------------------------- the apply phase
\* fs.ensureDirSync(d): d and its missing ancestors become directories;
\* it throws when d or an ancestor is a file
ensureDirThrows(t, d) == \E n \in Nodes : (n = d \/ IsUnder(d, n)) /\ t[n].k = "file"

ensureDirSync(t, d) ==
  [n \in Nodes |-> IF (n = d \/ IsUnder(d, n)) /\ t[n].k = "none" THEN DirEntry ELSE t[n]]

\* fs.copySync(src, dest, {overwrite: true}) of a file: it throws when dest
\* is a directory
copyThrows(t, dest) == isDirectory(t, dest)

\* copySync without overwrite: an existing destination is kept
copySync_NoOverwrite(tmpl, t, src, dest) ==
  IF existsSync(t, dest) THEN t ELSE [t EXCEPT ![dest] = FileEntry(Entry(tmpl, src).c)]

copySync(tmpl, t, src, dest) == [t EXCEPT ![dest] = FileEntry(Entry(tmpl, src).c)]

\* fs.removeSync(p): p and everything under it
removeSync(t, p) == [n \in Nodes |-> IF n = p \/ IsUnder(n, p) THEN NoEntry ELSE t[n]]

rmdirSync(t, p) == [t EXCEPT ![p] = NoEntry]

Applied(t, appliedFiles, deletedFilesCount, threw) ==
  [proj |-> t, appliedFiles |-> appliedFiles, deletedFilesCount |-> deletedFilesCount,
   threw |-> threw]

\* the loop body without the test of selectedCategories
applyChange_AnyCategory(tmpl, st, change, selectedCategories) ==
  IF change.type = "delete"
    THEN IF existsSync(st.proj, change.destPath)
           THEN Applied(removeSync(st.proj, change.destPath), st.appliedFiles,
                        st.deletedFilesCount + 1, FALSE)
           ELSE st
  ELSE IF ensureDirThrows(st.proj, Parent(change.destPath))
    THEN [st EXCEPT !.threw = TRUE]
  ELSE LET made == ensureDirSync(st.proj, Parent(change.destPath))
       IN IF copyThrows(made, change.destPath)
            THEN [st EXCEPT !.proj = made, !.threw = TRUE]
            ELSE Applied(copySync(tmpl, made, change.srcPath, change.destPath),
                         st.appliedFiles + 1, st.deletedFilesCount, FALSE)

\* one iteration of the loop over allFileChanges
applyChange(tmpl, st, change, selectedCategories) ==
  IF change.category \notin selectedCategories THEN st
  ELSE IF change.type = "delete"
    THEN IF existsSync(st.proj, change.destPath)
           THEN Applied(removeSync(st.proj, change.destPath), st.appliedFiles,
                        st.deletedFilesCount + 1, FALSE)
           ELSE st
  ELSE IF ensureDirThrows(st.proj, Parent(change.destPath))
    THEN [st EXCEPT !.threw = TRUE]
  ELSE LET made == ensureDirSync(st.proj, Parent(change.destPath))
       IN IF copyThrows(made, change.destPath)
            THEN [st EXCEPT !.proj = made, !.threw = TRUE]
            ELSE Applied(copySync(tmpl, made, change.srcPath, change.destPath),
                         st.appliedFiles + 1, st.deletedFilesCount, FALSE)

RECURSIVE applyChanges(_, _, _, _)
applyChanges(tmpl, st, changes, selectedCategories) ==
  IF changes = <<>> \/ st.threw THEN st
  ELSE applyChanges(tmpl, applyChange(tmpl, st, Head(changes), selectedCategories),
                    Tail(changes), selectedCategories)

RECURSIVE cleanEmptyDirectories(_, _)
RECURSIVE cleanEntries(_, _)
cleanEntries(t, entries) ==
  IF entries = <<>> THEN t
  ELSE LET fullPath == Head(entries)
           cleaned == cleanEmptyDirectories(t, fullPath)
           next == IF ~isDirectory(t, fullPath) THEN t
                   ELSE IF readdirSync(cleaned, fullPath) = <<>>
                     THEN rmdirSync(cleaned, fullPath)
                     ELSE cleaned
       IN cleanEntries(next, Tail(entries))

\* cleanEmptyDirectories that looks at the entries of dir only
cleanEmptyDirectories_Shallow(t, dir) ==
  [n \in Nodes |->
     IF Parent(n) = dir /\ isDirectory(t, n) /\ readdirSync(t, n) = <<>>
       THEN NoEntry ELSE t[n]]

cleanEmptyDirectories(t, dir) ==
  IF ~existsSync(t, dir) THEN t ELSE cleanEntries(t, readdirSync(t, dir))

\* ------------------------------------------------------------ aggregation
updateAll(options) == options.all \/ \A f \in Categories : ~options[f]

\* updateTargets that enables every category whatever the flags
updateTargets_Everything(options) == [f \in Categories |-> TRUE]

updateTargets(options) == [f \in Categories |-> updateAll(options) \/ options[f]]

\* the loop over TEMPLATE_DIRS.config without its branch for a file the
\* project lacks
configFileChanges_NoAdd(tmpl, proj) ==
  LET one(file) ==
        IF ~existsSync(tmpl, <<file>>) THEN <<>>
        ELSE IF ~existsSync(proj, <<file>>) THEN <<>>
        ELSE IF ~compareFiles(tmpl, proj, <<file>>, <<file>>)
          THEN << Change("modify", <<file>>, <<file>>, <<file>>, "config") >>
        ELSE <<>>
  IN ConcatAll([i \in DOMAIN TEMPLATE_DIRS_config |-> one(TEMPLATE_DIRS_config[i])])

\* the loop over TEMPLATE_DIRS.config
configFileChanges(tmpl, proj) ==
  LET one(file) ==
        IF ~existsSync(tmpl, <<file>>) THEN <<>>
        ELSE IF ~existsSync(proj, <<file>>)
          THEN << Change("add", <<file>>, <<file>>, <<file>>, "config") >>
        ELSE IF ~compareFiles(tmpl, proj, <<file>>, <<file>>)
          THEN << Change("modify", <<file>>, <<file>>, <<file>>, "config") >>
        ELSE <<>>
  IN ConcatAll([i \in DOMAIN TEMPLATE_DIRS_config |-> one(TEMPLATE_DIRS_config[i])])

\* existingPackages without the look at the project: every shared package
existingPackages_Unfiltered(proj) == {SHARED_PACKAGES[i] : i \in DOMAIN SHARED_PACKAGES}

existingPackages(proj) ==
  IF existsSync(proj, <<"packages">>)
    THEN {Name(q) : q \in {n \in Nodes : Parent(n) = <<"packages">> /\ isDirectory(proj, n)}}
    ELSE {}

\* the analysis phase of update: every enabled category's comparison
collectAll(tmpl, proj, targets, v, sep) ==
  LET checkDeleted == (v = "deletion")
      top(name, category) ==
        collectFileChanges(tmpl, proj, <<name>>, category, <<name>>, checkDeleted, sep)
      none == Walk(<<>>, FALSE)
      package(pkg) ==
        IF pkg \in existingPackages(proj)
          THEN collectFileChanges(tmpl, proj, <<"packages", pkg>>, "packages",
                                  pathJoin(<<"packages">>, pkg, sep), checkDeleted, sep)
          ELSE none
  IN WalkAll(
       (IF targets["config"]
          THEN << Walk(configFileChanges(tmpl, proj), FALSE),
                  top(".husky", "config"), top(".vscode", "config") >>
          ELSE <<>>)
       \o (IF targets["workflows"] THEN << top(".github", "workflows") >> ELSE <<>>)
       \o (IF targets["services"]
             THEN << top("services", "services"), top("docker", "services") >>
             ELSE <<>>)
       \o (IF targets["scripts"] THEN << top("scripts", "scripts") >> ELSE <<>>)
       \o (IF targets["packages"]
             THEN IF readdirThrows(proj, <<"packages">>)
                    THEN << Walk(<<>>, TRUE) >>
                    ELSE [i \in DOMAIN SHARED_PACKAGES |-> package(SHARED_PACKAGES[i])]
             ELSE <<>>))

analysedDependencies(templatePkg, projectPkg, targets, v) ==
  IF targets["dependencies"] THEN collectDependencyChanges(templatePkg, projectPkg, v)
  ELSE NoChanges

\* the condition of the "up to date" return
isEmpty(changes, depChanges, v) ==
  /\ \A i \in DOMAIN changes : changes[i].type \notin
        (IF v = "deletion" THEN {"add", "modify", "delete"} ELSE {"add", "modify"})
  /\ (~depChanges.has \/ ~hasChanges(depChanges, v))

\* the values the category checkbox offers
choices(changes, depChanges, v) ==
  {changes[i].category : i \in DOMAIN changes}
    \cup (IF depChanges.has /\ hasChanges(depChanges, v) THEN {"dependencies"} ELSE {})

\* ------------------------------------------------------------------ state
VARIABLES
  variant,             \* which update.ts runs: "deletion" or "additive"
  sep,                 \* path.sep of the platform
  options,             \* UpdateOptions
  tmpl,                \* the template tree
  proj,                \* the project tree
  templatePkg,         \* the template's package.json
  projectPkg,          \* the project's package.json
  pc,                  \* where update() stands
  outcome,             \* how update() ended: "exit1", "upToDate", "dryRun",
                       \* "cancelled", "complete", or an uncaught exception
  allFileChanges,
  dependencyChanges,
  selectedCategories,
  appliedFiles,
  deletedFilesCount,
  manifestWritten,     \* writeJsonSync(projectPkgPath) ran
  install,             \* the install command: "none", "ok" or "failed"
  proj0,               \* the project tree when update() started
  projectPkg0          \* the project manifest when update() started

vars ==
  << variant, sep, options, tmpl, proj, templatePkg, projectPkg, pc, outcome,
     allFileChanges, dependencyChanges, selectedCategories, appliedFiles,
     deletedFilesCount, manifestWritten, install, proj0, projectPkg0 >>

inputs == << variant, sep, options, tmpl, templatePkg, proj0, projectPkg0 >>

\* ---------------------------------------------------------------- actions
Finish(how) == pc' = "done" /\ outcome' = how

\* the summary's continuation without the dry-run return
AfterSummary_NoDryRun == pc' = "select" /\ outcome' = outcome

\* after the summary: the preview prompt, the dry-run return or the
\* category prompt
AfterSummary ==
  IF options.dryRun THEN Finish("dryRun")
  ELSE pc' = "select" /\ outcome' = outcome

\* the analysis with a clean-up of empty directories of its own
Analyze_Tidying ==
  /\ pc = "start"
  /\ IF ~isNexuProject(proj, projectPkg)
       THEN /\ Finish("exit1")
            /\ UNCHANGED << allFileChanges, dependencyChanges >>
       ELSE LET targets == updateTargets(options)
                walk == collectAll(tmpl, proj, targets, variant, sep)
                deps == analysedDependencies(templatePkg, projectPkg, targets, variant)
            IN IF walk.threw
                  \/ (targets["dependencies"] /\ readJsonThrows(templatePkg, projectPkg))
                 THEN /\ Finish("threwInAnalysis")
                      /\ UNCHANGED << allFileChanges, dependencyChanges >>
                 ELSE /\ allFileChanges' = walk.changes
                      /\ dependencyChanges' = deps
                      /\ IF isEmpty(walk.changes, deps, variant) THEN Finish("upToDate")
                         ELSE IF options.preview
                           THEN pc' = "preview" /\ outcome' = outcome
                         ELSE AfterSummary
  /\ proj' = cleanEmptyDirectories(proj, Root)
  /\ UNCHANGED << inputs, projectPkg, selectedCategories, appliedFiles,
                  deletedFilesCount, manifestWritten, install >>

\* update() from its start to its first prompt or return
Analyze ==
  /\ pc = "start"
  /\ IF ~isNexuProject(proj, projectPkg)
       THEN /\ Finish("exit1")
            /\ UNCHANGED << allFileChanges, dependencyChanges >>
       ELSE LET targets == updateTargets(options)
                walk == collectAll(tmpl, proj, targets, variant, sep)
                deps == analysedDependencies(templatePkg, projectPkg, targets, variant)
            IN IF walk.threw
                  \/ (targets["dependencies"] /\ readJsonThrows(templatePkg, projectPkg))
                 THEN /\ Finish("threwInAnalysis")
                      /\ UNCHANGED << allFileChanges, dependencyChanges >>
                 ELSE /\ allFileChanges' = walk.changes
                      /\ dependencyChanges' = deps
                      /\ IF isEmpty(walk.changes, deps, variant) THEN Finish("upToDate")
                         ELSE IF options.preview
                           THEN pc' = "preview" /\ outcome' = outcome
                         ELSE AfterSummary
  /\ UNCHANGED << inputs, proj, projectPkg, selectedCategories, appliedFiles,
                  deletedFilesCount, manifestWritten, install >>

\* showFileDiff reads both files of every modify record; readFileSync
\* throws on a directory
showDiffThrows ==
  \E i \in DOMAIN allFileChanges :
    /\ allFileChanges[i].type = "modify"
    /\ isDirectory(proj, allFileChanges[i].destPath)

AnswerPreview(showDiff) ==
  /\ pc = "preview"
  /\ IF showDiff /\ showDiffThrows THEN Finish("threwInPreview") ELSE AfterSummary
  /\ UNCHANGED << inputs, proj, projectPkg, allFileChanges, dependencyChanges,
                  selectedCategories, appliedFiles, deletedFilesCount,
                  manifestWritten, install >>

\* the category prompt without the return on an empty selection
SelectCategories_NoEmptyCheck(selected) ==
  /\ pc = "select"
  /\ selected \subseteq choices(allFileChanges, dependencyChanges, variant)
  /\ selectedCategories' = selected
  /\ pc' = "confirm" /\ outcome' = outcome
  /\ UNCHANGED << inputs, proj, projectPkg, allFileChanges, dependencyChanges,
                  appliedFiles, deletedFilesCount, manifestWritten, install >>

SelectCategories(selected) ==
  /\ pc = "select"
  /\ selected \subseteq choices(allFileChanges, dependencyChanges, variant)
  /\ selectedCategories' = selected
  /\ IF selected = {} THEN Finish("cancelled")
     ELSE pc' = "confirm" /\ outcome' = outcome
  /\ UNCHANGED << inputs, proj, projectPkg, allFileChanges, dependencyChanges,
                  appliedFiles, deletedFilesCount, manifestWritten, install >>

Decline ==
  /\ pc = "confirm"
  /\ Finish("cancelled")
  /\ UNCHANGED << inputs, proj, projectPkg, allFileChanges, dependencyChanges,
                  selectedCategories, appliedFiles, deletedFilesCount,
                  manifestWritten, install >>

\* the apply phase, from the confirmation to the install command
Apply ==
  /\ pc = "confirm"
  /\ LET st == applyChanges(tmpl, Applied(proj, 0, 0, FALSE), allFileChanges,
                            selectedCategories)
         cleaned == IF variant = "deletion" /\ st.deletedFilesCount > 0
                      THEN cleanEmptyDirectories(st.proj, Root)
                      ELSE st.proj
         merges == "dependencies" \in selectedCategories /\ dependencyChanges.has
         installs == /\ variant = "deletion"
                     /\ merges
                     /\ hasChanges(dependencyChanges, variant)
     IN /\ appliedFiles' = st.appliedFiles
        /\ deletedFilesCount' = st.deletedFilesCount
        /\ IF st.threw
             THEN /\ proj' = st.proj
                  /\ Finish("threwInApply")
                  /\ UNCHANGED << projectPkg, manifestWritten >>
             ELSE /\ proj' = cleaned
                  /\ projectPkg' = IF merges
                                     THEN mergeManifest(templatePkg, projectPkg, variant)
                                     ELSE projectPkg
                  /\ manifestWritten' = merges
                  /\ IF installs THEN pc' = "install" /\ outcome' = outcome
                     ELSE Finish("complete")
  /\ UNCHANGED << inputs, allFileChanges, dependencyChanges, selectedCategories, install >>

\* execInherit(installCmd): the package manager succeeds or fails
\* the install step with a failure of the command ending the process
Install_FailureIsFatal(ok) ==
  /\ pc = "install"
  /\ install' = IF ok THEN "ok" ELSE "failed"
  /\ Finish(IF ok THEN "complete" ELSE "exit1")
  /\ UNCHANGED << inputs, proj, projectPkg, allFileChanges, dependencyChanges,
                  selectedCategories, appliedFiles, deletedFilesCount, manifestWritten >>

Install(ok) ==
  /\ pc = "install"
  /\ install' = IF ok THEN "ok" ELSE "failed"
  /\ Finish("complete")
  /\ UNCHANGED << inputs, proj, projectPkg, allFileChanges, dependencyChanges,
                  selectedCategories, appliedFiles, deletedFilesCount, manifestWritten >>

\* --------------------------------------------------------- initial states
\* A tree from the contents of its files and its empty directories: every
\* ancestor of an entry is a directory.
MkTree(files, dirs) ==
  [n \in Nodes |->
     IF n \in DOMAIN files THEN FileEntry(files[n])
     ELSE IF n \in dirs \/ \E m \in (DOMAIN files) \cup dirs : IsUnder(m, n) THEN DirEntry
     ELSE NoEntry]

WellFormed(t) ==
  \A n \in Nodes : t[n].k # "none" /\ Len(n) > 1 => t[Parent(n)].k = "dir"

Present(f) == [n \in {m \in DOMAIN f : f[m] > 0} |-> f[n]]

\* the trees whose files are among V, with contents up to hi, and whose
\* empty directories are among D
Trees(V, hi, D) ==
  {t \in {MkTree(Present(f), d) : f \in [V -> 0..hi], d \in SUBSET D} : WellFormed(t)}

HuskySh == <<".husky", "_", "husky.sh">>
IndexTs == <<"packages", "cache", "index.ts">>
ConfigX == <<"config", "x.json">>
OldSh == <<"scripts", "old.sh">>
LockYaml == <<"packages", "cache", "pnpm-lock.yaml">>
LoggerTs == <<"packages", "logger", "index.ts">>
OldFile == <<"scripts", "old">>
UtilSh == <<"scripts", "old", "lib", "util.sh">>
RunSh == <<"scripts", "run.sh">>
AYml == <<"services", "dist", "a.yml">>
BYml == <<"services", "dist", "b.yml">>
TurboJson == <<"turbo.json">>

\* The template ships files only (no empty directory), each with content 1.
\* Six families of tree pairs: excluded paths, nested directories with
\* empty ones, several categories at once, two shared packages, a lock
\* file inside a package, and a project with a script of its own next to
\* a template with files at the root and under config/.
TreePairs ==
  ({<<t, p, s>> : t \in Trees({AYml}, 1, {}),
                  p \in Trees({AYml, BYml, HuskySh}, MaxContent, {}),
                  s \in {"/", "\\"}})
  \cup
  ({<<t, p, "/">> : t \in Trees({RunSh, UtilSh, OldFile}, 1, {}),
                    p \in Trees({RunSh, UtilSh, OldFile}, MaxContent,
                                {<<"scripts", "old", "lib">>, <<"apps">>,
                                 <<"services", "dist">>})})
  \cup
  ({<<t, p, "/">> : t \in Trees({TurboJson, AYml, IndexTs}, 1, {}),
                    p \in Trees({TurboJson, AYml, IndexTs}, MaxContent,
                                {<<"packages", "cache">>})})
  \cup
  ({<<t, p, "/">> : t \in Trees({IndexTs, LoggerTs}, 1, {}),
                    p \in Trees({IndexTs, LoggerTs}, MaxContent,
                                {<<"packages", "cache">>, <<"packages", "logger">>})})
  \cup
  ({<<t, p, "/">> : t \in Trees({IndexTs}, 1, {}),
                    p \in Trees({IndexTs, LockYaml}, 1, {})})
  \cup
  ({<<t, p, "/">> : t \in {MkTree([n \in V \cup {RunSh} |-> 1], {}) :
                             V \in SUBSET {ConfigX, TurboJson}},
                    p \in Trees({RunSh, OldSh}, MaxContent, {})})

NoFlags ==
  [packages |-> FALSE, config |-> FALSE, workflows |-> FALSE, services |-> FALSE,
   scripts |-> FALSE, dependencies |-> FALSE, all |-> FALSE, dryRun |-> FALSE,
   preview |-> FALSE]

Manifest(name, dependencies, devDependencies, scripts) ==
  [exists |-> TRUE, valid |-> TRUE, name |-> name, dependencies |-> dependencies,
   devDependencies |-> devDependencies, scripts |-> scripts]

NoManifest ==
  [exists |-> FALSE, valid |-> FALSE, name |-> "", dependencies |-> Undefined,
   devDependencies |-> Undefined, scripts |-> Undefined]

\* a package.json whose text is not JSON
BrokenManifest == [NoManifest EXCEPT !.exists = TRUE]

BaseTemplatePkg ==
  Manifest("nexu", Obj(<< <<1, "1.0">> >>), Obj(<<>>), Obj(<< <<1, "1.0">> >>))

BaseProjectPkg ==
  Manifest("nexu", Obj(<< <<2, "2.0">>, <<1, "2.0">> >>), Undefined,
           Obj(<< <<1, "2.0">> >>))

\* options and manifests that go with the tree pairs
Runs ==
  { <<NoFlags, BaseTemplatePkg, BaseProjectPkg>>,
    <<NoFlags, BaseTemplatePkg, BaseTemplatePkg>>,
    <<[NoFlags EXCEPT !.dryRun = TRUE], BaseTemplatePkg, BaseProjectPkg>>,
    <<[NoFlags EXCEPT !.preview = TRUE], BaseTemplatePkg, BaseProjectPkg>>,
    <<[NoFlags EXCEPT !.preview = TRUE, !.dryRun = TRUE], BaseTemplatePkg, BaseTemplatePkg>>,
    <<[NoFlags EXCEPT !.config = TRUE, !.scripts = TRUE], BaseTemplatePkg, BaseProjectPkg>>,
    <<NoFlags, NoManifest, [BaseProjectPkg EXCEPT !.name = "app"]>>,
    <<NoFlags, BaseTemplatePkg, NoManifest>>,
    <<NoFlags, BaseTemplatePkg, BrokenManifest>> }

InitWith(v, s, o, t, p, tp, pp) ==
  /\ variant = v
  /\ sep = s
  /\ options = o
  /\ tmpl = t
  /\ proj = p
  /\ templatePkg = tp
  /\ projectPkg = pp
  /\ pc = "start"
  /\ outcome = "none"
  /\ allFileChanges = <<>>
  /\ dependencyChanges = NoChanges
  /\ selectedCategories = {}
  /\ appliedFiles = 0
  /\ deletedFilesCount = 0
  /\ manifestWritten = FALSE
  /\ install = "none"
  /\ proj0 = p
  /\ projectPkg0 = pp

Variants == {"deletion", "additive"}

Init ==
  \E v \in Variants, tp \in TreePairs, r \in Runs :
    InitWith(v, tp[3], r[1], tp[1], tp[2], r[2], r[3])

Next ==
  \/ Analyze
  \/ \E showDiff \in BOOLEAN : AnswerPreview(showDiff)
  \/ \E selected \in SUBSET Categories : SelectCategories(selected)
  \/ Decline
  \/ Apply
  \/ \E ok \in BOOLEAN : Install(ok)

Spec == Init /\ [][Next]_vars

\* ------------------------------------------- manifests as the varied input
\* the objects over the keys ks with values from vs, in ascending key order
SortedObjects(vs) ==
  UNION {{[i \in DOMAIN SortedSeq(ks) |-> <<SortedSeq(ks)[i], f[SortedSeq(ks)[i]]>>] :
            f \in [ks -> vs]} : ks \in SUBSET Keys}

Reverse(m) == [i \in DOMAIN m |-> m[Len(m) + 1 - i]]

TemplateGroups == {Undefined} \cup {Obj(m) : m \in SortedObjects({"", "1.0"})}

ProjectGroups ==
  {Undefined} \cup {Obj(m) : m \in SortedObjects(Values)}
              \cup {Obj(Reverse(m)) : m \in SortedObjects(Values)}

\* one group varies in both manifests while the other two keep a fixed
\* value; and the pairs of two identical manifests
ManifestPairs ==
  UNION {{<<[Manifest("nexu", Undefined, Undefined, Undefined) EXCEPT ![g] = t],
            [Manifest("nexu", Obj(<< <<1, "1.0">> >>), Undefined, Obj(<<>>)) EXCEPT ![g] = p]>> :
            t \in TemplateGroups, p \in ProjectGroups} : g \in Groups}
  \cup
  UNION {{<<[Manifest("nexu", Undefined, Undefined, Undefined) EXCEPT ![g] = t],
            [Manifest("nexu", Undefined, Undefined, Undefined) EXCEPT ![g] = t]>> :
            t \in TemplateGroups} : g \in Groups}
  \cup
  {<<Manifest("nexu", Obj(<< <<1, "1.0">> >>), Undefined, Obj(<< <<1, "1.0">> >>)),
     Manifest("app", Obj(<< <<2, "2.0">> >>), Obj(<< <<1, "2.0">> >>), s)>> :
     s \in {Undefined, Obj(<< <<2, "1.0">> >>)}}

TurboOnly == MkTree([n \in {TurboJson} |-> 1], {})
NoFiles == MkTree(<<>>, {})
RunShOnly == MkTree([n \in {RunSh} |-> 1], {})

\* trees and options that go with the manifest pairs
ManifestRuns ==
  { <<NoFiles, NoFiles, NoFlags>>,
    <<TurboOnly, TurboOnly, [NoFlags EXCEPT !.dependencies = TRUE]>>,
    <<TurboOnly, NoFiles, [NoFlags EXCEPT !.preview = TRUE]>>,
    <<NoFiles, RunShOnly, [NoFlags EXCEPT !.dryRun = TRUE]>> }

InitManifest ==
  \E v \in Variants, r \in ManifestRuns, m \in ManifestPairs :
    InitWith(v, "/", r[3], r[1], r[2], m[1], m[2])

SpecManifest == InitManifest /\ [][Next]_vars

\* ------------------------------------------------------------------ claims
Deletes == {i \in DOMAIN allFileChanges : allFileChanges[i].type = "delete"}

\* a path matches an exclusion rule: its name is an exclusion token, or
\* the path is the token .husky/_
MatchesExclusion(q) ==
  \/ <<Name(q)>> \in ExclusionPatterns
  \/ q = <<".husky", "_">>

\* the path, or a directory above it, matches an exclusion rule
UnderExclusion(p) == \E k \in 1..Len(p) : MatchesExclusion(SubSeq(p, 1, k))

\* C1: no Delete record is collected for a path that matches an exclusion
\* rule or lies at any depth under a path that matches one.
C1_DeletionExclusion ==
  \A i \in Deletes : ~UnderExclusion(allFileChanges[i].destPath)

\* the analysis phase ran to its end
Analysed == pc # "start" /\ outcome \notin {"exit1", "threwInAnalysis"}

\* the apply phase ran to its end
ApplyCompleted == pc = "install" \/ (pc = "done" /\ outcome = "complete")

\* the category whose comparison covers a path, "" when none does
PathCategory(n) ==
  IF Len(n) = 1 /\ \E i \in DOMAIN TEMPLATE_DIRS_config : TEMPLATE_DIRS_config[i] = n[1]
    THEN "config"
  ELSE IF n[1] \in {".husky", ".vscode"} THEN "config"
  ELSE IF n[1] = ".github" THEN "workflows"
  ELSE IF n[1] \in {"services", "docker"} THEN "services"
  ELSE IF n[1] = "scripts" THEN "scripts"
  ELSE IF /\ n[1] = "packages"
          /\ Len(n) >= 3
          /\ \E i \in DOMAIN SHARED_PACKAGES : SHARED_PACKAGES[i] = n[2]
    THEN "packages"
  ELSE ""

\* a template file that an enabled category tracks in this project
Tracked(n) ==
  /\ tmpl[n].k = "file"
  /\ PathCategory(n) # ""
  /\ updateTargets(options)[PathCategory(n)]
  /\ PathCategory(n) = "packages" => proj0[SubSeq(n, 1, 2)].k = "dir"

RecordsFor(n) == {i \in DOMAIN allFileChanges : allFileChanges[i].destPath = n}

\* C2: after the analysis, every tracked template file that the project
\* lacks or holds with another content has exactly one record, Add when the
\* project lacks it and Modify otherwise.
C2_AddModifyComplete ==
  Analysed =>
    \A n \in Nodes :
      Tracked(n) /\ proj0[n] # tmpl[n] =>
        /\ Cardinality(RecordsFor(n)) = 1
        /\ \A i \in RecordsFor(n) :
             /\ allFileChanges[i].category = PathCategory(n)
             /\ allFileChanges[i].type = IF proj0[n].k = "none" THEN "add" ELSE "modify"

C2_Witness ==
  /\ pc = "select"
  /\ \E i, j \in DOMAIN allFileChanges :
       /\ allFileChanges[i].type = "add"
       /\ allFileChanges[j].type = "modify"
       /\ allFileChanges[i].category # allFileChanges[j].category

AllOffered == selectedCategories = choices(allFileChanges, dependencyChanges, variant)

\* C3: once a run in which every offered category was approved has
\* completed, the aggregation of the same template against the resulting
\* project collects no record.
C3_Convergence ==
  pc = "done" /\ outcome = "complete" /\ AllOffered =>
    LET again == collectAll(tmpl, proj, updateTargets(options), variant, sep)
    IN ~again.threw /\ again.changes = <<>>

C3_Witness ==
  /\ pc = "done" /\ outcome = "complete" /\ AllOffered
  /\ variant = "deletion"
  /\ \E i, j, k \in DOMAIN allFileChanges :
       /\ allFileChanges[i].type = "add"
       /\ allFileChanges[j].type = "modify"
       /\ allFileChanges[k].type = "delete"

\* C4: a file whose category was not approved exists after the run exactly
\* when it did before, with the same content.
C4_SelectiveApplication ==
  \A n \in Nodes :
    (proj0[n].k = "file" \/ proj[n].k = "file") /\ PathCategory(n) \notin selectedCategories
      => proj[n] = proj0[n]

C4_Witness ==
  /\ pc = "done" /\ outcome = "complete"
  /\ selectedCategories = {"config"}
  /\ \E i \in DOMAIN allFileChanges : allFileChanges[i].category = "services"
  /\ proj # proj0

Ascending(m) == \A i, j \in DOMAIN m : i < j => m[i][1] < m[j][1]

\* C5: when the manifest is written, dependencies and devDependencies each
\* hold the template's value for every key the template defines, the
\* project's value for every key only the project defines, no other key,
\* and their keys are in ascending order.
C5_MergePrecedence ==
  manifestWritten =>
    \A g \in {"dependencies", "devDependencies"} :
      LET t == templatePkg[g]
          p == projectPkg0[g]
          w == projectPkg[g]
      IN /\ w.has = (t.has \/ p.has)
         /\ KeysOf(w.m) = KeysOf(t.m) \cup KeysOf(p.m)
         /\ Len(w.m) = Cardinality(KeysOf(w.m))
         /\ \A k \in KeysOf(t.m) : Lookup(w.m, k) = Lookup(t.m, k)
         /\ \A k \in KeysOf(p.m) \ KeysOf(t.m) : Lookup(w.m, k) = Lookup(p.m, k)
         /\ Ascending(w.m)

\* template {1: "1.0"} over project {2: v, 1: "2.0"} was written as
\* {1: "1.0", 2: v}
C5_Witness ==
  /\ manifestWritten
  /\ templatePkg.dependencies = Obj(<< <<1, "1.0">> >>)
  /\ projectPkg0.dependencies = Obj(<< <<2, "2.0">>, <<1, "2.0">> >>)
  /\ projectPkg.dependencies = Obj(<< <<1, "1.0">>, <<2, "2.0">> >>)

\* C6: with --dry-run, update never stands at the category prompt, the
\* confirmation or the install step, ends as a dry run unless it ended
\* before the summary, and leaves the project tree and manifest as they were.
C6_DryRun ==
  options.dryRun =>
    /\ pc \in {"start", "preview", "done"}
    /\ pc = "done" => outcome \in {"dryRun", "upToDate", "exit1", "threwInAnalysis",
                                   "threwInPreview"}
    /\ proj = proj0
    /\ projectPkg = projectPkg0
    /\ ~manifestWritten
    /\ selectedCategories = {}

C6_Witness ==
  /\ options.dryRun
  /\ pc = "done" /\ outcome = "dryRun"
  /\ Deletes # {}
  /\ hasChanges(dependencyChanges, variant)

\* an approved Delete record names the file n, or a file under d
DeletedFile(n) ==
  \E i \in Deletes :
    allFileChanges[i].category \in selectedCategories /\ allFileChanges[i].destPath = n

DeletedUnder(d) ==
  \E i \in Deletes :
    /\ allFileChanges[i].category \in selectedCategories
    /\ IsUnder(allFileChanges[i].destPath, d)

\* the entries and the directories of the project once the loop over the
\* changes has copied and deleted, before any directory is removed
AfterLoop(n) == (proj0[n].k # "none" /\ ~DeletedFile(n)) \/ proj[n].k # "none"

AfterLoopDir(n) == AfterLoop(n) /\ proj0[n].k # "file" /\ proj[n].k # "file"

\* what the collapse keeps: a file; a directory under which nothing was
\* deleted; a directory with an entry that is kept
RECURSIVE Kept(_)
Kept(n) ==
  /\ AfterLoop(n)
  /\ \/ ~AfterLoopDir(n)
     \/ ~DeletedUnder(n)
     \/ \E c \in Nodes : Parent(c) = n /\ Kept(c)

C8_OnlyEmptiedRemoved ==
  \A d \in Nodes : proj0[d].k = "dir" /\ ~DeletedUnder(d) => proj[d].k = "dir"

\* the six lists of the manifest diff
DiffEmpty(changes) ==
  \A g \in Groups : changes.added[g] = <<>> /\ changes.updated[g] = <<>>

\* C9: update ends as "up to date" exactly when no file change was
\* collected and the manifest diff is absent or has no added and no
\* updated entry.
C9_IsEmpty ==
  Analysed =>
    (outcome = "upToDate" <=>
       /\ allFileChanges = <<>>
       /\ (~dependencyChanges.has \/ DiffEmpty(dependencyChanges)))

C9_Witness ==
  /\ outcome = "upToDate"
  /\ dependencyChanges.has
  /\ projectPkg0.dependencies # templatePkg.dependencies
  /\ templatePkg.scripts.has /\ templatePkg.scripts.m # <<>>

\* C10: with identical trees and identical manifests, update ends as "up
\* to date" from its analysis, and writes and removes nothing.
C10_IdenticalNoOp ==
  tmpl = proj0 /\ templatePkg = projectPkg0 /\ isNexuProject(proj0, projectPkg0) =>
    /\ pc \in {"start", "done"}
    /\ pc = "done" => outcome = "upToDate"
    /\ proj = proj0
    /\ ~manifestWritten
    /\ install = "none"

\* nothing of the project was written, removed or run
Untouched ==
  /\ proj = proj0
  /\ projectPkg = projectPkg0
  /\ ~manifestWritten
  /\ install = "none"
  /\ appliedFiles = 0
  /\ deletedFilesCount = 0

\* C11: an empty selection ends update as cancelled (the confirmation and
\* the apply phase are reached with a non-empty selection only), a declined
\* confirmation ends it as cancelled, and a cancelled run has copied and
\* deleted no file, removed no directory, not written the manifest and not
\* run the install command.
C11_Cancellation ==
  /\ pc = "confirm" \/ outcome \in {"complete", "threwInApply"} \/ pc = "install"
       => selectedCategories # {}
  /\ pc \in {"select", "confirm"} \/ outcome = "cancelled" => Untouched
  /\ outcome = "cancelled" => pc = "done"

\* a declined confirmation with approved Add, Delete and manifest changes
C11_Witness ==
  /\ pc = "done" /\ outcome = "cancelled"
  /\ "dependencies" \in selectedCategories
  /\ \E i, j \in DOMAIN allFileChanges :
       /\ allFileChanges[i].type = "delete"
       /\ allFileChanges[j].type = "add"
       /\ {allFileChanges[i].category, allFileChanges[j].category} \subseteq selectedCategories

\* the record is approved
Approved(i) == allFileChanges[i].category \in selectedCategories

\* the copy of an Add or Modify record cannot succeed: its destination is a
\* directory, or a file stands where a parent directory is needed
CopyFails(i) ==
  /\ allFileChanges[i].type \in {"add", "modify"}
  /\ \/ isDirectory(proj0, allFileChanges[i].destPath)
     \/ ensureDirThrows(proj0, Parent(allFileChanges[i].destPath))

\* the apply phase has ended, by its summary or by an exception
ApplyEnded == pc = "install" \/ (pc = "done" /\ outcome \in {"complete", "threwInApply"})

\* C12: the apply phase ends with its summary, and every approved Add or
\* Modify record whose own copy can succeed has been copied, whether or not
\* another approved record failed.
C12_ErrorsContained ==
  ApplyEnded =>
    /\ outcome # "threwInApply"
    /\ \A i \in DOMAIN allFileChanges :
         Approved(i) /\ allFileChanges[i].type \in {"add", "modify"} /\ ~CopyFails(i)
           => proj[allFileChanges[i].destPath] = tmpl[allFileChanges[i].srcPath]

FileCategories == Categories \ {"dependencies"}

\* the comparison of the one category c, on the project as update() found it
CategoryWalk(c) == collectAll(tmpl, proj0, [f \in Categories |-> f = c], variant, sep)

RecordsOf(c) == SelectSeq(allFileChanges, LAMBDA r : r.category = c)

\* update() went past its precondition and its analysis has ended
AnalysisEnded == pc # "start" /\ outcome # "exit1"

\* C13: once the analysis has ended, the records of every enabled category
\* whose own tree walk reads without error are collected, and so is the
\* manifest diff when the dependencies category is enabled, whether or not
\* the walk of another category failed.
C13_ComparisonErrorsContained ==
  AnalysisEnded =>
    /\ \A c \in FileCategories :
         updateTargets(options)[c] /\ ~CategoryWalk(c).threw
           => RecordsOf(c) = CategoryWalk(c).changes
    /\ updateTargets(options)["dependencies"]
         => dependencyChanges =
              collectDependencyChanges(templatePkg, projectPkg0, variant)

\* C14: from a directory that is not a recognized project (no package.json,
\* one that does not parse, or neither the name nexu nor a turbo.json),
\* update ends with exit code 1 from its first step: no record and no
\* manifest diff is collected, no prompt is reached, nothing is modified.
C14_PreconditionGate ==
  ~( /\ projectPkg0.exists
     /\ projectPkg0.valid
     /\ projectPkg0.name = "nexu" \/ proj0[TurboJson].k # "none" ) =>
    /\ pc \in {"start", "done"}
    /\ pc = "done" => outcome = "exit1"
    /\ allFileChanges = <<>>
    /\ dependencyChanges = NoChanges
    /\ selectedCategories = {}
    /\ Untouched

\* a package.json named otherwise, no turbo.json, and a template that
\* differs from the project
C14_Witness ==
  /\ pc = "done" /\ outcome = "exit1"
  /\ projectPkg0.exists /\ projectPkg0.valid /\ projectPkg0.name # "nexu"
  /\ proj0[TurboJson].k = "none"
  /\ \E n \in Nodes : tmpl[n].k = "file" /\ proj0[n] # tmpl[n]

\* the directories packages/<name> of the universe
PackageDirs == {n \in Nodes : Len(n) = 2 /\ n[1] = "packages"}

\* C15: for a package whose directory the project did not have when
\* update() started, no record names a path under packages/<name>, and the
\* directory does not exist at any later point of the run.
C15_NoNewPackage ==
  \A d \in PackageDirs :
    proj0[d].k # "dir" =>
      /\ \A i \in DOMAIN allFileChanges :
           LET r == allFileChanges[i]
           IN r.destPath # d /\ ~IsUnder(r.destPath, d)
      /\ proj[d].k # "dir"

\* the template ships cache and logger, the project had logger only; the
\* packages category was approved and applied
C15_Witness ==
  /\ pc = "done" /\ outcome = "complete"
  /\ "packages" \in selectedCategories
  /\ tmpl[IndexTs].k = "file"
  /\ proj0[<<"packages", "cache">>].k = "none"
  /\ proj0[<<"packages", "logger">>].k = "dir"
  /\ proj[LoggerTs] = tmpl[LoggerTs] /\ proj0[LoggerTs] # tmpl[LoggerTs]

\* the category flags given on the command line
Flagged == {f \in Categories : options[f]}

\* what the run collected for category c is what c's comparison yields
Collected(c) ==
  IF c = "dependencies"
    THEN dependencyChanges = collectDependencyChanges(templatePkg, projectPkg0, variant)
    ELSE RecordsOf(c) = CategoryWalk(c).changes

\* nothing was collected for category c
NotCollected(c) ==
  IF c = "dependencies" THEN dependencyChanges = NoChanges ELSE RecordsOf(c) = <<>>

\* C16: after an analysis without error, with no category flag the
\* comparison of each of the six categories was collected; with category
\* flags and no --all the comparison of each named category was collected
\* and nothing was collected for the others.
C16_CategoryEnabling ==
  Analysed =>
    /\ Flagged = {} => \A c \in Categories : Collected(c)
    /\ Flagged # {} /\ ~options.all =>
         \A c \in Categories : IF c \in Flagged THEN Collected(c) ELSE NotCollected(c)

\* --config --scripts: config records collected, while the differences of
\* the services tree and of the manifest were not
C16_Witness ==
  /\ pc = "select"
  /\ Flagged = {"config", "scripts"} /\ ~options.all
  /\ RecordsOf("config") # <<>>
  /\ CategoryWalk("services").changes # <<>> /\ RecordsOf("services") = <<>>
  /\ hasChanges(collectDependencyChanges(templatePkg, projectPkg0, variant), variant)
  /\ dependencyChanges = NoChanges

\* C17: the install command is reached and run only with the dependencies
\* category approved and the manifest written, and a run whose install
\* command failed ends as complete.
C17_InstallOrdering ==
  /\ pc = "install" \/ install # "none" =>
       "dependencies" \in selectedCategories /\ manifestWritten
  /\ install # "none" => pc = "done" /\ outcome = "complete"

\* the merged manifest was written, then the install command failed
C17_Witness ==
  /\ install = "failed"
  /\ pc = "done" /\ outcome = "complete"
  /\ manifestWritten /\ projectPkg # projectPkg0
  /\ selectedCategories # {"dependencies"}

\* C18: an Add record names a file of the template that the project lacks;
\* a Modify record names a file of the template whose path the project
\* holds with something else; a Delete record names a file of the project
\* whose path the template lacks; a file that is the same in both trees has
\* no record.
C18_RecordSoundness ==
  /\ \A i \in DOMAIN allFileChanges :
       LET r == allFileChanges[i]
           n == r.destPath
       IN /\ r.type = "add" => tmpl[n].k = "file" /\ proj0[n].k = "none"
          /\ r.type = "modify" =>
               tmpl[n].k = "file" /\ proj0[n].k # "none" /\ proj0[n] # tmpl[n]
          /\ r.type = "delete" => proj0[n].k = "file" /\ tmpl[n].k = "none"
  /\ \A n \in Nodes : tmpl[n].k = "file" /\ proj0[n] = tmpl[n] => RecordsFor(n) = {}

\* one analysis with a record of each type
C18_Witness ==
  /\ Analysed
  /\ \E i, j, k \in DOMAIN allFileChanges :
       /\ allFileChanges[i].type = "add" /\ proj0[allFileChanges[i].destPath].k = "none"
       /\ allFileChanges[j].type = "modify" /\ proj0[allFileChanges[j].destPath].k = "file"
       /\ allFileChanges[k].type = "delete" /\ tmpl[allFileChanges[k].destPath].k = "none"

\* C19: no two records of the collected list have the same category and
\* the same relativePath.
C19_Uniqueness ==
  \A i, j \in DOMAIN allFileChanges :
    /\ allFileChanges[i].category = allFileChanges[j].category
    /\ allFileChanges[i].relativePath = allFileChanges[j].relativePath
    => i = j

\* a Modify and a Delete collected in the same directory by the two passes
\* of one walk
C19_Witness ==
  \E i, j \in DOMAIN allFileChanges :
    /\ allFileChanges[i].type = "modify"
    /\ allFileChanges[j].type = "delete"
    /\ allFileChanges[i].category = allFileChanges[j].category
    /\ Parent(allFileChanges[i].destPath) = Parent(allFileChanges[j].destPath)

\* a directory of the project that the template lacks, that no exclusion
\* rule covers, and that an enabled category's walk reaches
DeletedDir(d) ==
  /\ proj0[d].k = "dir"
  /\ tmpl[d].k = "none"
  /\ ~UnderExclusion(d)
  /\ \E c \in FileCategories :
       /\ updateTargets(options)[c]
       /\ \/ PathCategory(d) = c
          \/ c = "packages" /\ d[1] = "packages" /\ Len(d) = 2
                            /\ \E i \in DOMAIN SHARED_PACKAGES : SHARED_PACKAGES[i] = d[2]

\* C20: after the analysis with deletion detection, a directory of the
\* project without counterpart in the template has no record of its own,
\* and each file below it that no exclusion rule covers has exactly one
\* record, a Delete.
C20_DeletePerFile ==
  variant = "deletion" /\ Analysed =>
    \A d \in Nodes :
      DeletedDir(d) =>
        /\ RecordsFor(d) = {}
        /\ \A f \in Nodes :
             IsUnder(f, d) /\ proj0[f].k = "file" /\ ~UnderExclusion(f) =>
               /\ Cardinality(RecordsFor(f)) = 1
               /\ \A i \in RecordsFor(f) : allFileChanges[i].type = "delete"

DependencyGroups == {"dependencies", "devDependencies"}

\* the entries of a list of the diff, as a set
Entries(m) == {m[i] : i \in DOMAIN m}

\* C21: in the collected manifest diff, for dependencies and
\* devDependencies, `added` holds exactly the template's entries whose key
\* the project does not define, and `updated` holds exactly the entries
\* whose key both define with different values, as <<key, from, to>>.
C21_DiffDefinition ==
  dependencyChanges.has =>
    \A g \in DependencyGroups :
      LET t == templatePkg[g].m
          p == projectPkg0[g].m
      IN /\ Entries(dependencyChanges.added[g]) =
              {e \in Entries(t) : e[1] \notin KeysOf(p)}
         /\ Entries(dependencyChanges.updated[g]) =
              {<<k, Lookup(p, k), Lookup(t, k)>> :
                 k \in {x \in KeysOf(t) \cap KeysOf(p) : Lookup(p, x) # Lookup(t, x)}}

\* C22: in the collected manifest diff no key of a group is both in
\* `added` and in `updated`.
C22_DiffDisjoint ==
  dependencyChanges.has =>
    \A g \in Groups :
      KeysOf(dependencyChanges.added[g]) \cap KeysOf(dependencyChanges.updated[g]) = {}

\* one group with an added and an updated key
C22_Witness ==
  /\ dependencyChanges.has
  /\ \E g \in Groups :
       /\ dependencyChanges.added[g] # <<>>
       /\ dependencyChanges.updated[g] # <<>>

LockFiles == {"pnpm-lock.yaml", "yarn.lock", "package-lock.json"}

\* C23: no Delete record is collected for a lock file.
C23_LockFilesExcluded ==
  \A i \in Deletes : Name(allFileChanges[i].destPath) \notin LockFiles

\* the relative path of n with its segments joined by s
RECURSIVE Joined(_, _)
Joined(n, s) == IF n = <<>> THEN <<>> ELSE pathJoin(Joined(Parent(n), s), Name(n), s)

\* C24: on the platform of the run, for every entry the walk can meet,
\* shouldExcludeFromDeletion gives the same answer for the path joined with
\* '/' and for the path joined with the platform's separator.
C24_SeparatorAgnostic ==
  variant = "deletion" /\ Analysed =>
    \A n \in Nodes :
      proj0[n].k # "none" =>
        shouldExcludeFromDeletion(Name(n), Joined(n, "/"), sep)
          = shouldExcludeFromDeletion(Name(n), Joined(n, sep), sep)

\* the analysis has ended without error and the apply phase has not begun
BeforeApply ==
  \/ pc \in {"preview", "select", "confirm"}
  \/ pc = "done" /\ outcome \in {"upToDate", "dryRun", "cancelled", "threwInPreview"}

C26_AdditiveScripts ==
  variant = "additive" =>
    /\ dependencyChanges.updated["scripts"] = <<>>
    /\ manifestWritten =>
         LET t == templatePkg.scripts.m
             p == projectPkg0.scripts.m
             w == projectPkg.scripts.m
         IN /\ Len(w) = Cardinality(KeysOf(w))
            /\ KeysOf(w) = KeysOf(p) \cup KeysOf(t)
            /\ \A k \in KeysOf(p) : Lookup(w, k) = Lookup(p, k)
            /\ \A k \in KeysOf(w) \ KeysOf(p) : Lookup(w, k) = Lookup(t, k)

\* the project's command for a script both define was kept and a script
\* only the template defines was written
C26_Witness ==
  /\ variant = "additive" /\ manifestWritten
  /\ \E k \in KeysOf(templatePkg.scripts.m) \cap KeysOf(projectPkg0.scripts.m) :
       /\ Lookup(templatePkg.scripts.m, k) # Lookup(projectPkg0.scripts.m, k)
       /\ Lookup(projectPkg.scripts.m, k) = Lookup(projectPkg0.scripts.m, k)
  /\ \E k \in KeysOf(templatePkg.scripts.m) \ KeysOf(projectPkg0.scripts.m) :
       k \in KeysOf(projectPkg.scripts.m)

\* the scenario: the template file a is absent from the project,
\* scripts/run.sh differs, scripts/old.sh is in the project only, no other
\* file differs, and every category is enabled in the variant that detects
\* deletions
Scenario(a) ==
  /\ variant = "deletion"
  /\ updateAll(options)
  /\ tmpl[a].k = "file" /\ proj0[a].k = "none"
  /\ tmpl[RunSh].k = "file" /\ proj0[RunSh].k = "file" /\ tmpl[RunSh] # proj0[RunSh]
  /\ tmpl[OldSh].k = "none" /\ proj0[OldSh].k = "file"
  /\ \A n \in Nodes \ {a, RunSh, OldSh} :
       tmpl[n].k = "file" \/ proj0[n].k = "file" => tmpl[n] = proj0[n]

RecordSet ==
  {<<allFileChanges[i].type, allFileChanges[i].destPath, allFileChanges[i].category>> :
     i \in DOMAIN allFileChanges}

\* what the scenario promises for the added file a of category c
ScenarioOutcome(a, c) ==
  /\ pc # "start" =>
       /\ Analysed
       /\ Len(allFileChanges) = 3
       /\ RecordSet = {<<"add", a, c>>, <<"modify", RunSh, "scripts">>,
                       <<"delete", OldSh, "scripts">>}
  /\ ApplyEnded /\ AllOffered =>
       /\ ApplyCompleted
       /\ proj[a] = tmpl[a]
       /\ proj[RunSh] = tmpl[RunSh]
       /\ proj[OldSh].k = "none"
       /\ proj[<<"scripts">>].k = "dir"

\* C27 as stated: the scenario with config/x.json as the added file.
C27_Scenario ==
  Scenario(ConfigX) /\ isNexuProject(proj0, projectPkg0) => ScenarioOutcome(ConfigX, "config")

\* C27 as amended: the scenario with turbo.json, a file of the config
\* category, as the added file.
C27_ScenarioTracked ==
  Scenario(TurboJson) /\ projectPkg0.exists /\ projectPkg0.valid /\ projectPkg0.name = "nexu"
    => ScenarioOutcome(TurboJson, "config")

\* the three records were approved and applied
C27_Witness ==
  /\ Scenario(TurboJson)
  /\ pc = "done" /\ outcome = "complete" /\ AllOffered
  /\ deletedFilesCount = 1 /\ appliedFiles = 2
  /\ proj[TurboJson].k = "file"

\* C28: every file and every directory of the project that matches an
\* exclusion rule, or lies under a path that matches one, exists at every
\* later point of the run.
C28_ExcludedKept ==
  \A n \in Nodes : UnderExclusion(n) /\ proj0[n].k # "none" => proj[n].k # "none"

\* the value the diff announces for key k of group g, given the project's
\* previous entries p
Announced(g, p, k) ==
  IF k \in KeysOf(dependencyChanges.added[g])
    THEN Lookup(dependencyChanges.added[g], k)
  ELSE IF k \in KeysOf(dependencyChanges.updated[g])
    THEN (dependencyChanges.updated[g][CHOOSE i \in DOMAIN dependencyChanges.updated[g] :
                                         dependencyChanges.updated[g][i][1] = k])[3]
  ELSE Lookup(p, k)

\* C29: in the variant with deletion detection, each written group holds
\* the project's previous keys and the keys the diff lists as added, every
\* added key with the template's value, every updated key with its `to`
\* value, and every other key with its previous value.
C29_DiffMergeAgree ==
  variant = "deletion" /\ manifestWritten =>
    \A g \in Groups :
      LET p == projectPkg0[g].m
          w == projectPkg[g].m
      IN /\ Len(w) = Cardinality(KeysOf(w))
         /\ KeysOf(w) = KeysOf(p) \cup KeysOf(dependencyChanges.added[g])
         /\ \A k \in KeysOf(w) : Lookup(w, k) = Announced(g, p, k)

\* a written group for which the diff listed an added and an updated key
C29_Witness ==
  /\ variant = "deletion" /\ manifestWritten
  /\ \E g \in Groups :
       /\ dependencyChanges.added[g] # <<>>
       /\ dependencyChanges.updated[g] # <<>>
       /\ projectPkg[g] # projectPkg0[g]

\* C30: a written manifest keeps every field outside dependencies,
\* devDependencies and scripts as it was, and keeps every key the project
\* had in those three groups.
C30_OnlyGroupsChange ==
  manifestWritten =>
    /\ projectPkg.name = projectPkg0.name
    /\ projectPkg.exists = projectPkg0.exists
    /\ projectPkg.valid = projectPkg0.valid
    /\ \A g \in Groups :
         /\ projectPkg0[g].has => projectPkg[g].has
         /\ KeysOf(projectPkg0[g].m) \subseteq KeysOf(projectPkg[g].m)

\* a written manifest that differs from the previous one, of a project
\* whose name is not the template's and which had a key the template lacks
C30_Witness ==
  /\ manifestWritten
  /\ projectPkg # projectPkg0
  /\ projectPkg0.name # templatePkg.name
  /\ \E g \in Groups : KeysOf(projectPkg0[g].m) \ KeysOf(templatePkg[g].m) # {}

====
